---- MODULE Spec2Model ----
(***************************************************************************)
(* Model of the rt_challenge geometry kernel (src/src/matrix.rs,           *)
(* src/src/roughly.rs, src/src/tuple.rs, src/src/ray.rs,                   *)
(* src/src/intersection.rs, src/src/spheres.rs), of its canvas             *)
(* (src/src/canvas.rs, src/src/color.rs) and of the projectile program     *)
(* (src/src/bin/projectile.rs, src/tests/projectile.rs).                   *)
(*                                                                         *)
(* Scalars: an f64 is modelled by an exact rational <<n, d>> in lowest     *)
(* terms with d > 0, so the arithmetic of the model is the arithmetic of   *)
(* the reals on the values it draws; of floating-point rounding only the   *)
(* absorption of an ordinary addend by a huge number, Big(k), is           *)
(* modelled.  A Matrix is the record [rows, cols, data] of the source,     *)
(* data being the row-major Vec (index i of the Vec is data[i + 1]).       *)
(* A call that panics yields the outcome Panic, a call that returns        *)
(* Err(..) yields Failure, any other call yields Ok(value).                *)
(***************************************************************************)
EXTENDS Integers, Sequences, FiniteSets, TLC

VARIABLES m, out, sets, base, t, chain, pt, vec, ops, ray, canvas, sim

vars == <<m, out, sets, base, t, chain, pt, vec, ops, ray, canvas, sim>>

(***************************************************************************)
(* Bounds of the model.                                                    *)
(***************************************************************************)
MaxDim == 2
MaxLen == 4
MaxIdx == 2
MaxSets == 1
MaxChain == 3
MaxOps == 2
MaxWidth == 2
MaxHeight == 2
MaxWrites == 1
MaxTicks == 450

(***************************************************************************)
(* Rational scalars.                                                       *)
(***************************************************************************)
RECURSIVE GCD(_, _)
GCD(a, b) ==
    IF b = 0 THEN a ELSE GCD(b, a % b)

IAbs(a) ==
    IF a < 0 THEN -a ELSE a

Norm(n, d) ==
    LET g == GCD(IAbs(n), IAbs(d))
        s == IF d < 0 THEN -1 ELSE 1
    IN  <<s * (n \div g), s * (d \div g)>>

Q(n) ==
    <<n, 1>>

Zero ==
    Q(0)

One ==
    Q(1)

\* An f64 far above the rationals of the model: Big(k) is k * 2^BigExp, whose
\* unit in the last place (2^(BigExp - 52)) is more than twice any rational
\* <<n, d>> the model holds, so that adding one to it rounds back to it.
BigExp ==
    100

Big(k) ==
    <<k, 1, BigExp>>

IsBig(a) ==
    Len(a) = 3

RNeg(a) ==
    IF IsBig(a) THEN Big(-a[1]) ELSE <<-a[1], a[2]>>

\* a + b, rounded as f64 does when one side is Big
RAdd(a, b) ==
    IF IsBig(a) /\ IsBig(b)
    THEN IF a[1] + b[1] = 0 THEN <<0, 1>> ELSE Big(a[1] + b[1])
    ELSE IF IsBig(a) THEN a
    ELSE IF IsBig(b) THEN b
    ELSE LET g == GCD(a[2], b[2])
         IN  Norm(a[1] * (b[2] \div g) + b[1] * (a[2] \div g), a[2] * (b[2] \div g))

RSub(a, b) ==
    RAdd(a, RNeg(b))

RMul(a, b) ==
    LET g1 == GCD(IAbs(a[1]), b[2])
        g2 == GCD(IAbs(b[1]), a[2])
    IN  IF a[1] = 0 \/ b[1] = 0
        THEN Zero
        ELSE <<(a[1] \div g1) * (b[1] \div g2), (a[2] \div g2) * (b[2] \div g1)>>

\* the f64 values that are no numbers: 0/0 and x/0
NaN ==
    <<0, 0>>

Inf(sign) ==
    <<sign, 0>>

IsNumber(a) ==
    a[2] # 0

\* a / b; a division by zero gives NaN (0/0) or an infinity
RDiv(a, b) ==
    IF b[1] = 0
    THEN IF a[1] = 0 THEN NaN ELSE Inf(IF a[1] < 0 THEN -1 ELSE 1)
    ELSE RMul(a, IF b[1] < 0 THEN <<-b[2], -b[1]>> ELSE <<b[2], b[1]>>)

\* a < b and a <= b on numbers
RLt(a, b) ==
    a[1] * b[2] < b[1] * a[2]

RLe(a, b) ==
    a[1] * b[2] <= b[1] * a[2]

\* the largest r in lo..hi with r * r <= n
RECURSIVE ISqrtIn(_, _, _)
ISqrtIn(n, lo, hi) ==
    IF lo >= hi
    THEN lo
    ELSE LET mid == (lo + hi + 1) \div 2
         IN  IF mid * mid <= n
             THEN ISqrtIn(n, mid, hi)
             ELSE ISqrtIn(n, lo, mid - 1)

ISqrt(n) ==
    ISqrtIn(n, 0, IF n < 46340 THEN n ELSE 46340)

\* f64::sqrt: exact on the squares of rationals, otherwise the root cut to
\* a multiple of 1 / (denominator * SqrtScale); NaN for a negative number
SqrtScale ==
    100

\* sqrt returning the negative root
Sqrt_negated(a) ==
    IF ~IsNumber(a) \/ a[1] < 0
    THEN NaN
    ELSE Norm(-ISqrt(a[1] * a[2] * SqrtScale * SqrtScale), a[2] * SqrtScale)

Sqrt(a) ==
    IF ~IsNumber(a) \/ a[1] < 0
    THEN NaN
    ELSE Norm(ISqrt(a[1] * a[2] * SqrtScale * SqrtScale), a[2] * SqrtScale)

RAbs(a) ==
    <<IAbs(a[1]), a[2]>>

\* |a| < 1 / k, without multiplying a's numerator
RAbsBelowInv(a, k) ==
    IAbs(a[1]) <= (a[2] - 1) \div k

(***************************************************************************)
(* roughly.rs: EPSILON is 1 / EpsilonInv.                                  *)
(***************************************************************************)
EpsilonInv == 100000

roughly_equal(a, b) ==
    RAbsBelowInv(RSub(a, b), EpsilonInv)

(***************************************************************************)
(* float_cmp's approx_eq_ulps(other, 2): equal values, or values of the    *)
(* same sign at most 2 representable f64 steps apart.  Two distinct        *)
(* rationals of the model are always further apart than 2 steps, so the    *)
(* comparison is equality of the values.                                   *)
(***************************************************************************)
approx_eq_ulps(a, b) ==
    a = b

(***************************************************************************)
(* Outcomes of a call.                                                     *)
(***************************************************************************)
Ok(v) ==
    [status |-> "ok", value |-> v]

Panic ==
    [status |-> "panic"]

Failure ==
    [status |-> "err"]

(***************************************************************************)
(* matrix.rs: struct Matrix and its constructors and accessors.            *)
(***************************************************************************)
Matrix(r, c, d) ==
    [rows |-> r, cols |-> c, data |-> d]

\* Vec indexing data[i]: panics when i is not below the length
index(d, i) ==
    IF i < Len(d) THEN Ok(d[i + 1]) ELSE Panic

new(r, c) ==
    Matrix(r, c, [i \in 1..(r * c) |-> Zero])

\* with_values rejecting only a values list that is too short
with_values_short_only(r, c, values) ==
    IF Len(values) < r * c
    THEN Panic
    ELSE Ok([new(r, c) EXCEPT !.data = values])

with_values(r, c, values) ==
    IF Len(values) # r * c
    THEN Panic
    ELSE Ok([new(r, c) EXCEPT !.data = values])

\* value_at without the assertion on col
value_at_unchecked_col(mx, r, c) ==
    IF ~(r < mx.rows) THEN Panic
    ELSE index(mx.data, mx.cols * r + c)

value_at(mx, r, c) ==
    IF ~(r < mx.rows) THEN Panic
    ELSE IF ~(c < mx.cols) THEN Panic
    ELSE index(mx.data, mx.cols * r + c)

set_value(mx, r, c, v) ==
    LET i == mx.cols * r + c
    IN  IF i < Len(mx.data)
        THEN Ok([mx EXCEPT !.data[i + 1] = v])
        ELSE Panic

\* identity4 with a zero in the last diagonal cell
identity4_holed ==
    with_values(4, 4, <<One, Zero, Zero, Zero, Zero, One, Zero, Zero,
                        Zero, Zero, One, Zero, Zero, Zero, Zero, Zero>>).value

identity4 ==
    with_values(4, 4, <<One, Zero, Zero, Zero, Zero, One, Zero, Zero,
                        Zero, Zero, One, Zero, Zero, Zero, Zero, One>>).value

row(mx, r) ==
    IF \E c \in 0..(mx.cols - 1) : value_at(mx, r, c) = Panic
    THEN Panic
    ELSE Ok([c \in 1..mx.cols |-> value_at(mx, r, c - 1).value])

col(mx, c) ==
    IF \E r \in 0..(mx.rows - 1) : value_at(mx, r, c) = Panic
    THEN Panic
    ELSE Ok([r \in 1..mx.rows |-> value_at(mx, r - 1, c).value])

\* zip(xs, ys).map(|(v1, v2)| v1 * v2).sum(), from pair k on
RECURSIVE zip_sum(_, _, _)
zip_sum(xs, ys, k) ==
    IF k > Len(xs) \/ k > Len(ys)
    THEN Zero
    ELSE RAdd(RMul(xs[k], ys[k]), zip_sum(xs, ys, k + 1))

\* calculate_cell pairing the row of m1 with a row of m2
calculate_cell_rows(r, c, m1, m2) ==
    LET xs == row(m1, r)
        ys == row(m2, c)
    IN  IF xs = Panic \/ ys = Panic
        THEN Panic
        ELSE Ok(zip_sum(xs.value, ys.value, 1))

calculate_cell(r, c, m1, m2) ==
    LET xs == row(m1, r)
        ys == col(m2, c)
    IN  IF xs = Panic \/ ys = Panic
        THEN Panic
        ELSE Ok(zip_sum(xs.value, ys.value, 1))

\* for row in 0..rows { for col in 0..cols { result.set_value(col, row, ..) } }
\* k counts the iterations done: row = k div cols, col = k mod cols
RECURSIVE transpose_loop(_, _, _)

\* the loop of transpose storing at (row, col)
transpose_loop_unswapped(mx, k, result) ==
    IF k >= mx.rows * mx.cols
    THEN Ok(result)
    ELSE LET r == k \div mx.cols
             c == k % mx.cols
             v == value_at(mx, r, c)
             s == IF v = Panic THEN Panic ELSE set_value(result, r, c, v.value)
         IN  IF s = Panic THEN Panic ELSE transpose_loop(mx, k + 1, s.value)

transpose_loop(mx, k, result) ==
    IF k >= mx.rows * mx.cols
    THEN Ok(result)
    ELSE LET r == k \div mx.cols
             c == k % mx.cols
             v == value_at(mx, r, c)
             s == IF v = Panic THEN Panic ELSE set_value(result, c, r, v.value)
         IN  IF s = Panic THEN Panic ELSE transpose_loop(mx, k + 1, s.value)

transpose(mx) ==
    transpose_loop(mx, 0, new(mx.cols, mx.rows))

(***************************************************************************)
(* matrix.rs: determinant, submatrix, minor, cofactor, invertible, inverse.*)
(***************************************************************************)
RECURSIVE determinant(_), det_loop(_, _, _), minor(_, _, _), cofactor(_, _, _)

RECURSIVE submatrix_loop(_, _, _, _, _)

\* the loop of submatrix storing at (dest_col, dest_row)
submatrix_loop_swapped(mx, remove_row, remove_col, k, result) ==
    IF k >= mx.rows * mx.cols
    THEN Ok(result)
    ELSE LET r == k \div mx.cols
             c == k % mx.cols
         IN  IF r # remove_row /\ c # remove_col
             THEN LET dest_row == IF r < remove_row THEN r ELSE r - 1
                      dest_col == IF c < remove_col THEN c ELSE c - 1
                      v == value_at(mx, r, c)
                      s == IF v = Panic THEN Panic
                           ELSE set_value(result, dest_col, dest_row, v.value)
                  IN  IF s = Panic THEN Panic
                      ELSE submatrix_loop(mx, remove_row, remove_col, k + 1, s.value)
             ELSE submatrix_loop(mx, remove_row, remove_col, k + 1, result)

submatrix_loop(mx, remove_row, remove_col, k, result) ==
    IF k >= mx.rows * mx.cols
    THEN Ok(result)
    ELSE LET r == k \div mx.cols
             c == k % mx.cols
         IN  IF r # remove_row /\ c # remove_col
             THEN LET dest_row == IF r < remove_row THEN r ELSE r - 1
                      dest_col == IF c < remove_col THEN c ELSE c - 1
                      v == value_at(mx, r, c)
                      s == IF v = Panic THEN Panic
                           ELSE set_value(result, dest_row, dest_col, v.value)
                  IN  IF s = Panic THEN Panic
                      ELSE submatrix_loop(mx, remove_row, remove_col, k + 1, s.value)
             ELSE submatrix_loop(mx, remove_row, remove_col, k + 1, result)

\* submatrix without the check for a single row or column
submatrix_of_single(mx, remove_row, remove_col) ==
    IF remove_row >= mx.rows THEN Panic
    ELSE IF remove_col >= mx.cols THEN Panic
    ELSE submatrix_loop(mx, remove_row, remove_col, 0, new(mx.rows - 1, mx.cols - 1))

submatrix(mx, remove_row, remove_col) ==
    IF mx.rows = 1 \/ mx.cols = 1 THEN Panic
    ELSE IF remove_row >= mx.rows THEN Panic
    ELSE IF remove_col >= mx.cols THEN Panic
    ELSE submatrix_loop(mx, remove_row, remove_col, 0, new(mx.rows - 1, mx.cols - 1))

\* for col in 0..cols { det += value_at(0, col) * cofactor(0, col) }
det_loop(mx, c, det) ==
    IF c >= mx.cols
    THEN Ok(det)
    ELSE LET v == value_at(mx, 0, c)
             cf == IF v = Panic THEN Panic ELSE cofactor(mx, 0, c)
         IN  IF cf = Panic THEN Panic
             ELSE det_loop(mx, c + 1, RAdd(det, RMul(v.value, cf.value)))

\* determinant returning the entry of a 1x1 matrix
determinant_of_entry(mx) ==
    IF mx.cols = 1 /\ mx.rows = 1
    THEN Ok(mx.data[1])
    ELSE IF mx.cols # 2 \/ mx.rows # 2
    THEN det_loop(mx, 0, Zero)
    ELSE Ok(RSub(RMul(mx.data[1], mx.data[4]), RMul(mx.data[2], mx.data[3])))

determinant(mx) ==
    IF mx.cols # 2 \/ mx.rows # 2
    THEN det_loop(mx, 0, Zero)
    ELSE Ok(RSub(RMul(mx.data[1], mx.data[4]), RMul(mx.data[2], mx.data[3])))

minor(mx, r, c) ==
    LET s == submatrix(mx, r, c)
    IN  IF s = Panic THEN Panic ELSE determinant(s.value)

\* cofactor negating the minor when row + col is even
cofactor_flipped(mx, r, c) ==
    LET mi == minor(mx, r, c)
    IN  IF mi = Panic THEN Panic
        ELSE Ok(RMul(mi.value, IF (r + c) % 2 = 0 THEN Q(-1) ELSE One))

cofactor(mx, r, c) ==
    LET mi == minor(mx, r, c)
    IN  IF mi = Panic THEN Panic
        ELSE Ok(RMul(mi.value, IF (r + c) % 2 = 1 THEN Q(-1) ELSE One))

invertible(mx) ==
    LET d == determinant(mx)
    IN  IF d = Panic THEN Panic ELSE Ok(~approx_eq_ulps(d.value, Zero))

\* for row in 0..rows { for col in 0..cols { m2.set_value(col, row, c / det) } }
RECURSIVE inverse_loop(_, _, _, _)

\* the loop of inverse storing the quotient at (row, col)
inverse_loop_untransposed(mx, self_determinant, k, m2) ==
    IF k >= mx.rows * mx.cols
    THEN Ok(m2)
    ELSE LET r == k \div mx.cols
             c == k % mx.cols
             cf == cofactor(mx, r, c)
             s == IF cf = Panic THEN Panic
                  ELSE set_value(m2, r, c, RDiv(cf.value, self_determinant))
         IN  IF s = Panic THEN Panic
             ELSE inverse_loop(mx, self_determinant, k + 1, s.value)

inverse_loop(mx, self_determinant, k, m2) ==
    IF k >= mx.rows * mx.cols
    THEN Ok(m2)
    ELSE LET r == k \div mx.cols
             c == k % mx.cols
             cf == cofactor(mx, r, c)
             s == IF cf = Panic THEN Panic
                  ELSE set_value(m2, c, r, RDiv(cf.value, self_determinant))
         IN  IF s = Panic THEN Panic
             ELSE inverse_loop(mx, self_determinant, k + 1, s.value)

inverse(mx) ==
    LET inv == invertible(mx)
    IN  IF inv = Panic THEN Panic
        ELSE IF ~inv.value THEN Panic
        ELSE inverse_loop(mx, determinant(mx).value, 0, new(mx.rows, mx.cols))

(***************************************************************************)
(* matrix.rs: impl Mul for Matrix (by value) and for &Matrix (by           *)
(* reference).                                                             *)
(***************************************************************************)
RECURSIVE mul_loop(_, _, _, _)
mul_loop(m1, m2, k, result) ==
    IF k >= m1.rows * m2.cols
    THEN Ok(result)
    ELSE LET r == k \div m2.cols
             c == k % m2.cols
             v == calculate_cell(r, c, m1, m2)
             s == IF v = Panic THEN Panic ELSE set_value(result, r, c, v.value)
         IN  IF s = Panic THEN Panic ELSE mul_loop(m1, m2, k + 1, s.value)

mul(m1, m2) ==
    IF m1.cols # m2.rows
    THEN Panic
    ELSE mul_loop(m1, m2, 0, new(m1.rows, m2.cols))

RECURSIVE mul_ref_loop(_, _, _, _)
mul_ref_loop(m1, m2, k, result) ==
    IF k >= m1.rows * m2.cols
    THEN Ok(result)
    ELSE LET r == k \div m2.cols
             c == k % m2.cols
             v == calculate_cell(r, c, m1, m2)
             s == IF v = Panic THEN Panic ELSE set_value(result, r, c, v.value)
         IN  IF s = Panic THEN Panic ELSE mul_ref_loop(m1, m2, k + 1, s.value)

\* the by-reference product without the check of the dimensions
mul_ref_unchecked(m1, m2) ==
    mul_ref_loop(m1, m2, 0, new(m1.rows, m2.cols))

mul_ref(m1, m2) ==
    IF m1.cols # m2.rows
    THEN Failure
    ELSE mul_ref_loop(m1, m2, 0, new(m1.rows, m2.cols))

(***************************************************************************)
(* matrix.rs: transformation constructors and the fluent methods.  An      *)
(* angle r is one of the names below, angles whose cosine and sine are     *)
(* rational: r.cos() is Cos(r), r.sin() is Sin(r).                         *)
(***************************************************************************)
Angles ==
    {"quarter", "atan43"}

\* quarter: a right angle; atan43: the angle of the 3-4-5 triangle
Cos(r) ==
    IF r = "quarter" THEN Zero ELSE <<3, 5>>

Sin(r) ==
    IF r = "quarter" THEN One ELSE <<4, 5>>

translation(x, y, z) ==
    with_values(4, 4, <<One, Zero, Zero, x, Zero, One, Zero, y,
                        Zero, Zero, One, z, Zero, Zero, Zero, One>>).value

\* scaling with a 2 in the last diagonal cell
scaling_of_w(x, y, z) ==
    with_values(4, 4, <<x, Zero, Zero, Zero, Zero, y, Zero, Zero,
                        Zero, Zero, z, Zero, Zero, Zero, Zero, Q(2)>>).value

scaling(x, y, z) ==
    with_values(4, 4, <<x, Zero, Zero, Zero, Zero, y, Zero, Zero,
                        Zero, Zero, z, Zero, Zero, Zero, Zero, One>>).value

rotation_x(r) ==
    with_values(4, 4, <<One, Zero, Zero, Zero,
                        Zero, Cos(r), RNeg(Sin(r)), Zero,
                        Zero, Sin(r), Cos(r), Zero,
                        Zero, Zero, Zero, One>>).value

rotation_y(r) ==
    with_values(4, 4, <<Cos(r), Zero, Sin(r), Zero,
                        Zero, One, Zero, Zero,
                        RNeg(Sin(r)), Zero, Cos(r), Zero,
                        Zero, Zero, Zero, One>>).value

rotation_z(r) ==
    with_values(4, 4, <<Cos(r), RNeg(Sin(r)), Zero, Zero,
                        Sin(r), Cos(r), Zero, Zero,
                        Zero, Zero, One, Zero,
                        Zero, Zero, Zero, One>>).value

shearing(xy, xz, yx, yz, zx, zy) ==
    with_values(4, 4, <<One, xy, xz, Zero,
                        yx, One, yz, Zero,
                        zx, zy, One, Zero,
                        Zero, Zero, Zero, One>>).value

\* translate multiplying on the right
translate_post(mx, x, y, z) ==
    mul(mx, translation(x, y, z))

translate(mx, x, y, z) ==
    mul(translation(x, y, z), mx)

rotate_x(mx, r) ==
    mul(rotation_x(r), mx)

rotate_y(mx, r) ==
    mul(rotation_y(r), mx)

rotate_z(mx, r) ==
    mul(rotation_z(r), mx)

scale(mx, x, y, z) ==
    mul(scaling(x, y, z), mx)

shear(mx, xy, xz, yx, yz, zx, zy) ==
    mul(shearing(xy, xz, yx, yz, zx, zy), mx)

(***************************************************************************)
(* matrix.rs: the comparisons of two matrices.                             *)
(***************************************************************************)
Min(a, b) ==
    IF a < b THEN a ELSE b

\* impl PartialEq for Matrix: the pairs of data.iter().zip(other.data.iter())
\* are compared with approx_eq_ulps(y, 2)
matrix_eq(a, b) ==
    IF a.rows = b.rows /\ a.cols = b.cols
    THEN \A i \in 1..Min(Len(a.data), Len(b.data)) : approx_eq_ulps(a.data[i], b.data[i])
    ELSE FALSE

\* impl RoughlyEqual for Matrix
matrix_roughly_equal(a, b) ==
    IF a.rows = b.rows /\ a.cols = b.cols
    THEN \A i \in 1..Min(Len(a.data), Len(b.data)) : roughly_equal(a.data[i], b.data[i])
    ELSE FALSE

(***************************************************************************)
(* tuple.rs: Tuple([f64; 4]) is <<x, y, z, w>>; Point and Vector wrap a    *)
(* Tuple, which of the two a value is being fixed by the operator used.    *)
(***************************************************************************)
Tuple_new(x, y, z, w) ==
    <<x, y, z, w>>

Point_new(x, y, z) ==
    Tuple_new(x, y, z, One)

Vector_new(x, y, z) ==
    Tuple_new(x, y, z, Zero)

point(x, y, z) ==
    Point_new(x, y, z)

vector(x, y, z) ==
    Vector_new(x, y, z)

\* impl Add for Tuple
tuple_add(a, b) ==
    Tuple_new(RAdd(a[1], b[1]), RAdd(a[2], b[2]), RAdd(a[3], b[3]), RAdd(a[4], b[4]))

\* impl Sub for Tuple
tuple_sub(a, b) ==
    Tuple_new(RSub(a[1], b[1]), RSub(a[2], b[2]), RSub(a[3], b[3]), RSub(a[4], b[4]))

\* impl Mul<f64> for Tuple
tuple_mul(a, s) ==
    Tuple_new(RMul(a[1], s), RMul(a[2], s), RMul(a[3], s), RMul(a[4], s))

\* impl Add<Vector> for Point
point_add_vector(p, v) ==
    tuple_add(p, v)

\* impl Add for Vector
vector_add(a, b) ==
    tuple_add(a, b)

\* Point - Point adding the tuples
point_sub_point_added(p, q) ==
    tuple_add(p, q)

\* impl Sub<Point> for Point, a Vector
point_sub_point(p, q) ==
    tuple_sub(p, q)

\* Point - Vector adding the tuples
point_sub_vector_added(p, v) ==
    tuple_add(p, v)

\* impl Sub<Vector> for Point
point_sub_vector(p, v) ==
    tuple_sub(p, v)

\* impl Sub<Vector> for Vector
vector_sub(a, b) ==
    tuple_sub(a, b)

\* impl Mul<f64> for Vector
vector_mul(v, s) ==
    tuple_mul(v, s)

\* impl PartialEq for Tuple
tuple_eq(a, b) ==
    /\ roughly_equal(a[1], b[1])
    /\ roughly_equal(a[2], b[2])
    /\ roughly_equal(a[3], b[3])
    /\ roughly_equal(a[4], b[4])

\* impl PartialEq for Vector
vector_eq(a, b) ==
    tuple_eq(a, b)

\* impl PartialEq for Point
point_eq(a, b) ==
    tuple_eq(a, b)

\* Vector::dot
dot(a, b) ==
    RAdd(RAdd(RAdd(RMul(a[1], b[1]), RMul(a[2], b[2])), RMul(a[3], b[3])),
         RMul(a[4], b[4]))

\* impl Neg for Tuple
tuple_neg(a) ==
    Tuple_new(RNeg(a[1]), RNeg(a[2]), RNeg(a[3]), RNeg(a[4]))

\* Vector::cross with the sum of the products in the third component
cross_summed(a, b) ==
    Vector_new(RSub(RMul(a[2], b[3]), RMul(a[3], b[2])),
               RSub(RMul(a[3], b[1]), RMul(a[1], b[3])),
               RAdd(RMul(a[1], b[2]), RMul(a[2], b[1])))

\* Vector::cross
cross(a, b) ==
    Vector_new(RSub(RMul(a[2], b[3]), RMul(a[3], b[2])),
               RSub(RMul(a[3], b[1]), RMul(a[1], b[3])),
               RSub(RMul(a[1], b[2]), RMul(a[2], b[1])))

\* impl From<Matrix> for Tuple
Tuple_from_Matrix(mx) ==
    LET x == value_at(mx, 0, 0)
        y == value_at(mx, 1, 0)
        z == value_at(mx, 2, 0)
        w == value_at(mx, 3, 0)
    IN  IF x = Panic \/ y = Panic \/ z = Panic \/ w = Panic
        THEN Panic
        ELSE Ok(Tuple_new(x.value, y.value, z.value, w.value))

\* From<Vector> for Matrix with the w of a point
Matrix_from_Vector_w1(v) ==
    with_values(4, 1, <<v[1], v[2], v[3], One>>).value

\* impl From<Vector> for Matrix
Matrix_from_Vector(v) ==
    with_values(4, 1, <<v[1], v[2], v[3], Zero>>).value

\* impl From<Point> for Matrix
Matrix_from_Point(p) ==
    with_values(4, 1, <<p[1], p[2], p[3], One>>).value

\* impl Mul<Point> for Matrix: (self * Matrix::from(t)).into()
mul_point(mx, p) ==
    LET prod == mul(mx, Matrix_from_Point(p))
    IN  IF prod = Panic THEN Panic ELSE Tuple_from_Matrix(prod.value)

\* impl Mul<Vector> for Matrix
mul_vector(mx, v) ==
    LET prod == mul(mx, Matrix_from_Vector(v))
    IN  IF prod = Panic THEN Panic ELSE Tuple_from_Matrix(prod.value)

\* Point::rotate_x, rotate_y, rotate_z, translate, scale, shear
Point_rotate_x(p, r) ==
    mul_point(rotation_x(r), p)

Point_rotate_y(p, r) ==
    mul_point(rotation_y(r), p)

Point_rotate_z(p, r) ==
    mul_point(rotation_z(r), p)

\* Point::translate moving twice as far
Point_translate_twice(p, x, y, z) ==
    mul_point(translation(RAdd(x, x), RAdd(y, y), RAdd(z, z)), p)

Point_translate(p, x, y, z) ==
    mul_point(translation(x, y, z), p)

Point_scale(p, x, y, z) ==
    mul_point(scaling(x, y, z), p)

Point_shear(p, xy, xz, yx, yz, zx, zy) ==
    mul_point(shearing(xy, xz, yx, yz, zx, zy), p)

(***************************************************************************)
(* ray.rs, intersection.rs, spheres.rs: a ray and its intersections with   *)
(* the unit sphere at the origin.                                          *)
(***************************************************************************)
Ray_new(origin, direction) ==
    [origin |-> origin, direction |-> direction]

Intersection_new(t_value, object) ==
    [t |-> t_value, object |-> object]

\* impl Intersectable for Sphere, a tangent ray counted as a miss
intersect_strict(r) ==
    LET sphere_to_ray == point_sub_point(r.origin, point(Zero, Zero, Zero))
        a == dot(r.direction, r.direction)
        b == RMul(Q(2), dot(r.direction, sphere_to_ray))
        c == RSub(dot(sphere_to_ray, sphere_to_ray), One)
        discriminant == RSub(RMul(b, b), RMul(RMul(Q(4), a), c))
    IN  IF RLe(discriminant, Zero)
        THEN <<>>
        ELSE LET t1 == RDiv(RSub(RNeg(b), Sqrt(discriminant)), RMul(Q(2), a))
                 t2 == RDiv(RAdd(RNeg(b), Sqrt(discriminant)), RMul(Q(2), a))
             IN  <<Intersection_new(t1, "Sphere"), Intersection_new(t2, "Sphere")>>

\* impl Intersectable for Sphere
intersect(r) ==
    LET sphere_to_ray == point_sub_point(r.origin, point(Zero, Zero, Zero))
        a == dot(r.direction, r.direction)
        b == RMul(Q(2), dot(r.direction, sphere_to_ray))
        c == RSub(dot(sphere_to_ray, sphere_to_ray), One)
        discriminant == RSub(RMul(b, b), RMul(RMul(Q(4), a), c))
    IN  IF RLt(discriminant, Zero)
        THEN <<>>
        ELSE LET t1 == RDiv(RSub(RNeg(b), Sqrt(discriminant)), RMul(Q(2), a))
                 t2 == RDiv(RAdd(RNeg(b), Sqrt(discriminant)), RMul(Q(2), a))
             IN  <<Intersection_new(t1, "Sphere"), Intersection_new(t2, "Sphere")>>

(***************************************************************************)
(* color.rs, canvas.rs: a Color is <<red, green, blue>>, a Canvas the      *)
(* record [width, height, data], data being the Vec of pixels row by row.  *)
(* A String is the sequence of its characters.                             *)
(***************************************************************************)
Color_new(r, g, b) ==
    <<r, g, b>>

Some(v) ==
    [some |-> TRUE, value |-> v]

None ==
    [some |-> FALSE]

Canvas_new(width, height) ==
    [width |-> width, height |-> height,
     data |-> [i \in 1..(width * height) |-> Color_new(Zero, Zero, Zero)]]

coords_to_index(c, x, y) ==
    y * c.width + x

\* self.data.get(self.coords_to_index(x, y))
pixel_at(c, x, y) ==
    LET idx == coords_to_index(c, x, y)
    IN  IF idx < Len(c.data) THEN Some(c.data[idx + 1]) ELSE None

\* set_pixel writing the pixel mirrored in the row
set_pixel_mirrored(c, x, y, value) ==
    LET idx == y * c.width + (c.width - 1 - x)
    IN  IF idx >= 0 /\ idx < Len(c.data)
        THEN Ok([c EXCEPT !.data[idx + 1] = value])
        ELSE Panic

\* self.data[idx] = value
set_pixel(c, x, y, value) ==
    LET idx == coords_to_index(c, x, y)
    IN  IF idx < Len(c.data)
        THEN Ok([c EXCEPT !.data[idx + 1] = value])
        ELSE Panic

\* f64::round of a number: to the nearest integer, halves away from zero
Round(a) ==
    LET q == (2 * IAbs(a[1]) + a[2]) \div (2 * a[2])
    IN  IF a[1] < 0 THEN -q ELSE q

\* (val * 255.).round().max(0.).min(255.) as u8
clamp_byte(val) ==
    LET rounded == Round(RMul(val, Q(255)))
    IN  IF rounded < 0 THEN 0 ELSE IF rounded > 255 THEN 255 ELSE rounded

Digits ==
    <<"0", "1", "2", "3", "4", "5", "6", "7", "8", "9">>

\* usize / u8 to_string: the decimal digits of n
RECURSIVE to_string(_)
to_string(n) ==
    IF n < 10
    THEN <<Digits[n + 1]>>
    ELSE to_string(n \div 10) \o <<Digits[(n % 10) + 1]>>

\* the values of a row taken blue, green, red
row_values_bgr(c, r) ==
    [k \in 1..(3 * c.width) |->
        pixel_at(c, (k - 1) \div 3, r).value[3 - ((k - 1) % 3)]]

\* the red, green and blue of the pixels of a row, in the order of the loops
\* over col and rgb
row_values(c, r) ==
    [k \in 1..(3 * c.width) |->
        pixel_at(c, (k - 1) \div 3, r).value[((k - 1) % 3) + 1]]

\* the width of a line of the file
LineWidth ==
    70

\* the loop over the values of a row splitting only lines above the width
RECURSIVE write_row(_, _, _)
write_row_late(vals, k, line) ==
    IF k > Len(vals)
    THEN IF Len(line) > 0 THEN line \o <<"\n">> ELSE <<>>
    ELSE LET s == to_string(clamp_byte(vals[k]))
         IN  IF Len(line) + Len(s) > LineWidth
             THEN line \o <<"\n">> \o write_row(vals, k + 1, s)
             ELSE write_row(vals, k + 1,
                            (IF Len(line) > 0 THEN line \o <<" ">> ELSE line) \o s)

\* for col in 0..width { for i in rgb { .. } } and the flush of the line:
\* what the values of a row from the k-th on append to result, line being
\* the line in progress
write_row(vals, k, line) ==
    IF k > Len(vals)
    THEN IF Len(line) > 0 THEN line \o <<"\n">> ELSE <<>>
    ELSE LET s == to_string(clamp_byte(vals[k]))
         IN  IF Len(line) + Len(s) >= LineWidth
             THEN line \o <<"\n">> \o write_row(vals, k + 1, s)
             ELSE write_row(vals, k + 1,
                            (IF Len(line) > 0 THEN line \o <<" ">> ELSE line) \o s)

\* for row in 0..height { line.clear(); .. }: what the rows from r on append
\* to result
RECURSIVE write_rows(_, _)
write_rows(c, r) ==
    IF r >= c.height
    THEN <<>>
    ELSE write_row(row_values(c, r), 1, <<>>) \o write_rows(c, r + 1)

try_to_ppm(c) ==
    LET header == <<"P", "3", "\n">>
                  \o to_string(c.width) \o <<" ">> \o to_string(c.height) \o <<"\n">>
                  \o <<"2", "5", "5", "\n">>
    IN  Ok(header \o write_rows(c, 0))

to_ppm(c) ==
    try_to_ppm(c).value

(***************************************************************************)
(* bin/projectile.rs (tests/projectile.rs runs the same loop): an          *)
(* environment, a projectile and the tick that moves it.                   *)
(***************************************************************************)
\* impl Div<f64> for Tuple
tuple_div(a, s) ==
    Tuple_new(RDiv(a[1], s), RDiv(a[2], s), RDiv(a[3], s), RDiv(a[4], s))

\* Vector::magnitude: the square root of the sum of the four squares
magnitude(v) ==
    Sqrt(RAdd(RAdd(RAdd(RMul(v[1], v[1]), RMul(v[2], v[2])), RMul(v[3], v[3])),
              RMul(v[4], v[4])))

\* Vector::normalize
normalize(v) ==
    tuple_div(v, magnitude(v))

Env_new(gravity, wind) ==
    [gravity |-> gravity, wind |-> wind]

Projectile_new(position, velocity) ==
    [position |-> position, velocity |-> velocity]

\* a tick that leaves the position where it is
tick_still(env, proj) ==
    Projectile_new(proj.position,
                   tuple_add(tuple_add(proj.velocity, env.gravity), env.wind))

\* fn tick(env, proj)
tick(env, proj) ==
    Projectile_new(tuple_add(proj.position, proj.velocity),
                   tuple_add(tuple_add(proj.velocity, env.gravity), env.wind))

\* f64 as usize on the numbers of the simulation: NaN and negative numbers
\* give 0, the others lose their fraction
as_usize(a) ==
    IF ~IsNumber(a) \/ a[1] < 0 THEN 0 ELSE a[1] \div a[2]

\* Canvas::new(900, 550)
CanvasWidth ==
    900

CanvasHeight ==
    550

\* The body of the loop up to the tick: the set_pixel calls of the 3 x 3
\* block around the position, as the set of their (px, py).  c.height() - y
\* as usize overflows when the projectile is above the canvas: a debug build
\* panics, a release build wraps, and the wrapped sums reinterpreted as i64
\* are the mathematical cy + dy - 1.
plot(build, position) ==
    LET cx == as_usize(position[1])
        y == as_usize(position[2])
        cy == CanvasHeight - y
    IN  IF y > CanvasHeight /\ build = "debug"
        THEN Panic
        ELSE Ok({ c \in { <<cx + dx - 1, cy + dy - 1>> : dx \in 0..2, dy \in 0..2 } :
                    c[1] >= 0 /\ c[1] < 900 /\ c[2] >= 0 /\ c[2] < 550 })

\* the state before main runs
SimStart ==
    [pc |-> "start"]

(***************************************************************************)
(* Inputs of the matrix engine.                                            *)
(***************************************************************************)
\* a small scalar, 1/1000: products of two or three of them are nonzero
\* numbers below EPSILON
Milli ==
    <<1, 1000>>

Scalars ==
    {Zero, One, Milli}

SetScalars ==
    {Q(7)}

QS(ints) ==
    [i \in 1..Len(ints) |-> Q(ints[i])]

SeqsUpTo(S, n) ==
    UNION {[1..k -> S] : k \in 0..n}

\* matrices of the test suite of matrix.rs and a row of four, as arguments of
\* with_values
TestInputs ==
    { <<2, 2, QS(<<-3, 5, 1, -2>>)>>,
      <<3, 3, QS(<<1, 2, 6, -5, 8, -4, 2, 6, 4>>)>>,
      <<3, 3, QS(<<3, 5, 0, 2, -1, -7, 6, -1, 5>>)>>,
      <<4, 4, QS(<<-5, 2, 6, -8, 1, -5, 1, 8, 7, 7, -6, -7, 1, -3, 7, 4>>)>>,
      <<4, 4, QS(<<-4, 2, -2, -3, 9, 6, 2, 6, 0, -5, 1, -5, 0, 0, 0, 0>>)>>,
      <<4, 4, QS(<<-2, -8, 3, 5, -3, 1, 7, 3, 1, 2, -9, 6, -6, 7, 7, -9>>)>>,
      <<4, 4, <<Milli, Zero, Zero, Zero, Zero, Milli, Zero, Zero,
                Zero, Zero, One, Zero, Zero, Zero, Zero, One>>>>,
      <<2, 3, QS(<<1, 2, 3, 4, 5, 6>>)>>,
      <<4, 1, QS(<<1, 2, 3, 1>>)>>,
      <<1, 4, QS(<<1, 2, 3, 4>>)>> }

Inputs ==
    TestInputs \cup
    {<<r, c, vs>> : r \in 0..MaxDim, c \in 0..MaxDim, vs \in SeqsUpTo(Scalars, MaxLen)}

\* a scalar below EPSILON, 1/1000000
Micro ==
    <<1, 1000000>>

\* right-hand operands of a comparison
Others ==
    { with_values(2, 2, QS(<<-3, 5, 1, -2>>)).value,
      with_values(2, 2, <<Micro, One, Zero, Zero>>).value,
      with_values(1, 2, <<Milli, Milli>>).value,
      with_values(2, 1, <<Zero, One>>).value,
      with_values(2, 3, QS(<<1, 2, 3, 4, 5, 6>>)).value }

\* right-hand operands of a multiplication
Operands ==
    { with_values(2, 2, QS(<<-3, 5, 1, -2>>)).value,
      with_values(2, 2, <<Milli, One, Zero, Milli>>).value,
      with_values(2, 3, QS(<<1, 2, 3, 4, 5, 6>>)).value,
      with_values(3, 3, QS(<<1, 2, 6, -5, 8, -4, 2, 6, 4>>)).value,
      with_values(4, 4, QS(<<-2, 1, 2, 3, 3, 2, 1, -1, 4, 3, 6, 5, 1, 2, 7, 8>>)).value,
      with_values(4, 1, QS(<<1, 2, 3, 1>>)).value,
      identity4 }

(***************************************************************************)
(* The matrix engine as a state machine: m is the matrix the program       *)
(* owns, out the last call with its arguments and outcome.  A panic ends   *)
(* the program.                                                            *)
(***************************************************************************)
Start ==
    [op |-> "start", res |-> Ok(TRUE)]

Alive ==
    out.res.status # "panic"

Built ==
    out.op # "start" /\ Alive

\* The queries (value_at, *, determinant, invertible, inverse) leave m as it
\* is, so a query made after another query reaches no state that the same
\* query made right after the construction or the last set_value does not
\* reach; the queries are taken from there.
Fresh ==
    Built /\ out.op \in {"with_values", "set_value"}

Init ==
    /\ m = new(0, 0)
    /\ out = Start
    /\ sets = 0
    /\ base = identity4
    /\ t = identity4
    /\ chain = <<>>
    /\ pt = point(Zero, Zero, Zero)
    /\ vec = vector(Zero, Zero, Zero)
    /\ ops = 0
    /\ ray = Ray_new(point(Zero, Zero, Zero), vector(Zero, Zero, Zero))
    /\ canvas = Canvas_new(0, 0)
    /\ sim = SimStart

\* let m = Matrix::with_values(rows, cols, values)
WithValues ==
    /\ out.op = "start"
    /\ \E in \in Inputs :
         LET res == with_values(in[1], in[2], in[3])
         IN  /\ out' = [op |-> "with_values", rows |-> in[1], cols |-> in[2],
                        values |-> in[3], res |-> res]
             /\ m' = IF res = Panic THEN m ELSE res.value
    /\ UNCHANGED <<sets, base, t, chain, pt, vec, ops, ray, canvas, sim>>

\* m.value_at(row, col)
ValueAt ==
    /\ Fresh
    /\ \E r \in 0..MaxIdx, c \in 0..MaxIdx :
         out' = [op |-> "value_at", row |-> r, col |-> c, res |-> value_at(m, r, c)]
    /\ UNCHANGED <<m, sets, base, t, chain, pt, vec, ops, ray, canvas, sim>>

\* m.set_value(row, col, v)
SetValue ==
    /\ Built
    /\ sets < MaxSets
    /\ \E r \in 0..MaxIdx, c \in 0..MaxIdx, v \in SetScalars :
         LET res == set_value(m, r, c, v)
         IN  /\ out' = [op |-> "set_value", row |-> r, col |-> c, v |-> v,
                        res |-> IF res = Panic THEN Panic ELSE Ok(TRUE)]
             /\ m' = IF res = Panic THEN m ELSE res.value
    /\ sets' = sets + 1
    /\ UNCHANGED <<base, t, chain, pt, vec, ops, ray, canvas, sim>>

\* m.clone() * rhs
Mul ==
    /\ Fresh
    /\ \E rhs \in Operands :
         out' = [op |-> "mul", rhs |-> rhs, res |-> mul(m, rhs)]
    /\ UNCHANGED <<m, sets, base, t, chain, pt, vec, ops, ray, canvas, sim>>

\* &m * &rhs
MulRef ==
    /\ Fresh
    /\ \E rhs \in Operands :
         out' = [op |-> "mul_ref", rhs |-> rhs, res |-> mul_ref(m, rhs)]
    /\ UNCHANGED <<m, sets, base, t, chain, pt, vec, ops, ray, canvas, sim>>

\* m.determinant()
Determinant ==
    /\ Fresh
    /\ out' = [op |-> "determinant", res |-> determinant(m)]
    /\ UNCHANGED <<m, sets, base, t, chain, pt, vec, ops, ray, canvas, sim>>

\* m.invertible()
Invertible ==
    /\ Fresh
    /\ out' = [op |-> "invertible", res |-> invertible(m)]
    /\ UNCHANGED <<m, sets, base, t, chain, pt, vec, ops, ray, canvas, sim>>

\* m.inverse()
Inverse ==
    /\ Fresh
    /\ out' = [op |-> "inverse", res |-> inverse(m)]
    /\ UNCHANGED <<m, sets, base, t, chain, pt, vec, ops, ray, canvas, sim>>

\* m.submatrix(remove_row, remove_col)
Submatrix ==
    /\ Fresh
    /\ \E rr \in 0..MaxIdx, rc \in 0..MaxIdx :
         out' = [op |-> "submatrix", remove_row |-> rr, remove_col |-> rc,
                 res |-> submatrix(m, rr, rc)]
    /\ UNCHANGED <<m, sets, base, t, chain, pt, vec, ops, ray, canvas, sim>>

\* m == other
Eq ==
    /\ Fresh
    /\ \E other \in Others :
         out' = [op |-> "eq", other |-> other, res |-> Ok(matrix_eq(m, other))]
    /\ UNCHANGED <<m, sets, base, t, chain, pt, vec, ops, ray, canvas, sim>>

\* m.transpose()
Transpose ==
    /\ Fresh
    /\ out' = [op |-> "transpose", res |-> transpose(m)]
    /\ UNCHANGED <<m, sets, base, t, chain, pt, vec, ops, ray, canvas, sim>>

Next ==
    \/ WithValues
    \/ ValueAt
    \/ SetValue
    \/ Mul
    \/ MulRef
    \/ Determinant
    \/ Invertible
    \/ Inverse
    \/ Submatrix
    \/ Eq
    \/ Transpose

Spec ==
    Init /\ [][Next]_vars

(***************************************************************************)
(* Mathematical reference definitions used by the properties: cells of a   *)
(* matrix by row and column, the sum formula of a product, and the         *)
(* determinant by expansion along columns (the code expands along rows).   *)
(***************************************************************************)
Cell(mx, r, c) ==
    mx.data[r * mx.cols + c + 1]

InRange(mx, r, c) ==
    r < mx.rows /\ c < mx.cols

RECURSIVE DotSum(_, _, _, _, _)
DotSum(a, b, r, c, k) ==
    IF k >= a.cols
    THEN Zero
    ELSE RAdd(RMul(Cell(a, r, k), Cell(b, k, c)), DotSum(a, b, r, c, k + 1))

\* the sequence 0, 1, .., n - 1 without x
Without(n, x) ==
    [i \in 1..(n - 1) |-> IF i - 1 < x THEN i - 1 ELSE i]

\* the sequence xs without its i-th element
Drop(xs, i) ==
    [j \in 1..(Len(xs) - 1) |-> IF j < i THEN xs[j] ELSE xs[j + 1]]

\* determinant of the rows rs and columns cs of mx, by Laplace expansion
\* along the first of the columns (ColSum adds the terms of rows i, i + 1, ..)
RECURSIVE LaplaceDet(_, _, _), ColSum(_, _, _, _)
LaplaceDet(mx, rs, cs) ==
    IF Len(rs) = 0 THEN One ELSE ColSum(mx, rs, cs, 1)

ColSum(mx, rs, cs, i) ==
    IF i > Len(rs)
    THEN Zero
    ELSE LET term == RMul(Cell(mx, rs[i], cs[1]), LaplaceDet(mx, Drop(rs, i), Tail(cs)))
         IN  RAdd(IF i % 2 = 1 THEN term ELSE RNeg(term), ColSum(mx, rs, cs, i + 1))

MathDet(mx) ==
    LaplaceDet(mx, [i \in 1..mx.rows |-> i - 1], [i \in 1..mx.cols |-> i - 1])

MathMinor(mx, r, c) ==
    LaplaceDet(mx, Without(mx.rows, r), Without(mx.cols, c))

MathCofactor(mx, r, c) ==
    IF (r + c) % 2 = 1 THEN RNeg(MathMinor(mx, r, c)) ELSE MathMinor(mx, r, c)

Square(mx) ==
    mx.rows = mx.cols

(***************************************************************************)
(* Properties of the matrix engine.                                        *)
(***************************************************************************)

\* C2: set_value(row, col, v) is bounds-checked: whenever row >= rows or
\* col >= cols the call fails and no cell of the matrix is changed.
C2_SetValueBoundsChecked ==
    [][(sets' = sets + 1 /\ ~InRange(m, out'.row, out'.col))
          => (out'.res = Panic /\ m' = m)]_vars

\* C3: value_at(row, col) fails whenever row >= rows or col >= cols, and for
\* in-range indices of a matrix built by with_values(rows, cols, values) it
\* returns values[row * cols + col].
C3_ValueAtChecked ==
    [][(out'.op = "value_at" /\ out.op # "value_at")
          => /\ ~InRange(m, out'.row, out'.col) => out'.res = Panic
             /\ (out.op = "with_values" /\ InRange(m, out'.row, out'.col))
                   => out'.res = Ok(out.values[out'.row * out.cols + out'.col + 1])]_vars

C3_Witness ==
    /\ out.op = "value_at"
    /\ out.res.status = "ok"
    /\ sets = 0
    /\ m.rows = 2 /\ m.cols = 3
    /\ out.row = 1 /\ out.col = 2
    /\ out.res.value = Q(6)

\* C4: with_values(rows, cols, values) fails exactly when values.len() is not
\* rows * cols, and a matrix it constructs has the given shape and values, so
\* its data length is rows * cols.
C4_WithValuesShape ==
    out.op = "with_values"
       => /\ (out.res = Panic) <=> (Len(out.values) # out.rows * out.cols)
          /\ out.res # Panic
                => /\ m = out.res.value
                   /\ m.rows = out.rows /\ m.cols = out.cols /\ m.data = out.values
                   /\ Len(m.data) = m.rows * m.cols

C4_Witness ==
    /\ out.op = "with_values"
    /\ out.res = Panic
    /\ Len(out.values) > out.rows * out.cols
    /\ out.rows * out.cols > 0

\* C5: for m1.cols = m2.rows, m1 * m2 is the m1.rows x m2.cols matrix whose
\* cell (r, c) is the sum over k of m1[r][k] * m2[k][c].
C5_MulCells ==
    (out.op = "mul" /\ m.cols = out.rhs.rows)
       => /\ out.res.status = "ok"
          /\ out.res.value.rows = m.rows
          /\ out.res.value.cols = out.rhs.cols
          /\ Len(out.res.value.data) = m.rows * out.rhs.cols
          /\ \A r \in 0..(m.rows - 1), c \in 0..(out.rhs.cols - 1) :
                Cell(out.res.value, r, c) = DotSum(m, out.rhs, r, c, 0)

C5_Witness ==
    /\ out.op = "mul"
    /\ out.res.status = "ok"
    /\ m.rows = 2 /\ m.cols = 2 /\ out.rhs.cols = 3
    /\ Cell(out.res.value, 1, 2) # Cell(out.res.value, 0, 1)
    /\ \A i \in 1..6 : out.res.value.data[i] # Zero

C7_InverseRejectsNearSingular ==
    (out.op = "inverse" /\ Square(m) /\ roughly_equal(MathDet(m), Zero))
       => out.res = Panic

\* C8: invertible() returns true if and only if determinant() is not
\* roughly equal to 0.
C8_InvertibleIffNotRoughlyZero ==
    (out.op = "invertible" /\ out.res.status = "ok")
       => (out.res.value <=> ~roughly_equal(determinant(m).value, Zero))

\* C9: for every invertible 4x4 matrix M, inverse() succeeds and places
\* cofactor(row, col) / determinant at position (col, row), and M times the
\* result is the identity.
C9_InverseIsAdjugateOverDet ==
    (out.op = "inverse" /\ m.rows = 4 /\ m.cols = 4 /\ MathDet(m) # Zero)
       => /\ out.res.status = "ok"
          /\ out.res.value.rows = 4 /\ out.res.value.cols = 4
          /\ \A r \in 0..3, c \in 0..3 :
                /\ Cell(out.res.value, c, r) = RDiv(MathCofactor(m, r, c), MathDet(m))
                /\ DotSum(m, out.res.value, r, c, 0) = Cell(identity4, r, c)

C9_Witness ==
    /\ out.op = "inverse"
    /\ out.res.status = "ok"
    /\ m.rows = 4 /\ m.cols = 4
    /\ Cell(out.res.value, 3, 2) # Cell(out.res.value, 2, 3)
    /\ Cell(out.res.value, 3, 2) = <<-40, 133>>

\* C10: for a 2x2, 3x3 or 4x4 matrix determinant() is the mathematical
\* determinant: a*d - b*c for 2x2, else the sum over col of
\* value_at(0, col) * cofactor(0, col), cofactor(row, col) being
\* minor(row, col) negated exactly when row + col is odd.
C10_DeterminantCorrect ==
    (out.op = "determinant" /\ Square(m) /\ m.rows \in 2..4)
       => /\ out.res = Ok(MathDet(m))
          /\ m.rows = 2
                => out.res.value = RSub(RMul(Cell(m, 0, 0), Cell(m, 1, 1)),
                                        RMul(Cell(m, 0, 1), Cell(m, 1, 0)))
          /\ m.rows > 2
                => \A r \in 0..(m.rows - 1), c \in 0..(m.cols - 1) :
                      /\ minor(m, r, c) = Ok(MathMinor(m, r, c))
                      /\ cofactor(m, r, c) = Ok(MathCofactor(m, r, c))

C10_Witness ==
    /\ out.op = "determinant"
    /\ m.rows = 4 /\ m.cols = 4
    /\ out.res = Ok(Q(-4071))

\* C11: determinant() fails for every matrix that is not square (rows # cols),
\* whatever shape the constructors accepted, and never returns a number for
\* one.
C11_DeterminantRejectsNonSquare ==
    (out.op = "determinant" /\ m.rows # m.cols) => out.res = Panic

\* C29: determinant() of a 1x1 matrix fails (the expansion along row 0 asks
\* for a submatrix of a one-row matrix) instead of returning the entry, and
\* so do invertible() and inverse() on every 1x1 matrix.
C29_OneByOneFails ==
    (/\ out.op \in {"determinant", "invertible", "inverse"}
     /\ m.rows = 1 /\ m.cols = 1)
    => /\ out.res = Panic
       /\ value_at(m, 0, 0).status = "ok"
       /\ submatrix(m, 0, 0) = Panic

\* inverse() of the 1x1 matrix [7], written by set_value
C29_Witness ==
    /\ out.op = "inverse"
    /\ m = with_values(1, 1, <<Q(7)>>).value
    /\ out.res = Panic

\* C12: for a matrix with at least 2 rows and 2 columns and remove_row,
\* remove_col in range, submatrix returns the (rows-1) x (cols-1) matrix
\* whose cell (i, j) is the source cell (i + [i >= remove_row],
\* j + [j >= remove_col]): the removed row and column are gone and the order
\* of the others is kept.
C12_SubmatrixCells ==
    (/\ out.op = "submatrix"
     /\ m.rows >= 2 /\ m.cols >= 2
     /\ out.remove_row < m.rows /\ out.remove_col < m.cols)
    => /\ out.res.status = "ok"
       /\ out.res.value.rows = m.rows - 1
       /\ out.res.value.cols = m.cols - 1
       /\ Len(out.res.value.data) = (m.rows - 1) * (m.cols - 1)
       /\ \A i \in 0..(m.rows - 2), j \in 0..(m.cols - 2) :
            Cell(out.res.value, i, j) =
                Cell(m, IF i >= out.remove_row THEN i + 1 ELSE i,
                        IF j >= out.remove_col THEN j + 1 ELSE j)

\* test_submatrix_3x3's shape: a 3x3 matrix without row 1 and column 0
C12_Witness ==
    /\ out.op = "submatrix"
    /\ m = with_values(3, 3, QS(<<3, 5, 0, 2, -1, -7, 6, -1, 5>>)).value
    /\ out.remove_row = 1 /\ out.remove_col = 0
    /\ out.res = Ok(with_values(2, 2, QS(<<5, 0, -1, 5>>)).value)

\* C13: submatrix(remove_row, remove_col) fails, returning no matrix, when
\* the source has exactly one row or exactly one column, or when
\* remove_row >= rows or remove_col >= cols.
C13_SubmatrixRejects ==
    (/\ out.op = "submatrix"
     /\ \/ m.rows = 1
        \/ m.cols = 1
        \/ out.remove_row >= m.rows
        \/ out.remove_col >= m.cols)
    => out.res = Panic

\* a one-row matrix asked for an in-range submatrix, and a 2x2 matrix asked
\* to remove column 2
C13_Witness ==
    /\ out.op = "submatrix"
    /\ out.res = Panic
    /\ \/ m.rows = 1 /\ m.cols = 2 /\ out.remove_row = 0 /\ out.remove_col = 0
       \/ m.rows = 2 /\ m.cols = 2 /\ out.remove_row = 0 /\ out.remove_col = 2

\* C14: m == other is true exactly when the two matrices have the same rows
\* and cols and every pair of corresponding components is roughly equal
\* (|a - b| < 1e-5); matrices of different shapes compare unequal without
\* failing.
C14_EqIsRoughEquality ==
    out.op = "eq"
    => /\ out.res.status = "ok"
       /\ out.res.value <=>
            /\ m.rows = out.other.rows
            /\ m.cols = out.other.cols
            /\ \A r \in 0..(m.rows - 1), c \in 0..(m.cols - 1) :
                 roughly_equal(Cell(m, r, c), Cell(out.other, r, c))

\* C19: transpose() of an r x c matrix is the c x r matrix whose cell (j, i)
\* is the source cell (i, j), and transposing twice gives the matrix back:
\* m.transpose().transpose() == m, for every matrix.
C19_TransposeInvolutive ==
    out.op = "transpose"
    => /\ out.res.status = "ok"
       /\ out.res.value.rows = m.cols
       /\ out.res.value.cols = m.rows
       /\ Len(out.res.value.data) = m.rows * m.cols
       /\ \A i \in 0..(m.rows - 1), j \in 0..(m.cols - 1) :
            Cell(out.res.value, j, i) = Cell(m, i, j)
       /\ transpose(out.res.value).status = "ok"
       /\ matrix_eq(transpose(out.res.value).value, m)
       /\ transpose(out.res.value).value = m

\* a 2x3 matrix becomes the 3x2 matrix of its columns
C19_Witness ==
    /\ out.op = "transpose"
    /\ m = with_values(2, 3, QS(<<1, 2, 3, 4, 5, 6>>)).value
    /\ out.res = Ok(with_values(3, 2, QS(<<1, 4, 2, 5, 3, 6>>)).value)

\* C20: identity4() is neutral on the right: for every matrix m with 4
\* columns m * identity4() == m, by value (m.clone() * identity4()) and by
\* reference (&m * &identity4()).
C20_IdentityNeutral ==
    (/\ out.op \in {"mul", "mul_ref"}
     /\ out.rhs = identity4
     /\ m.cols = 4)
    => /\ out.res.status = "ok"
       /\ matrix_eq(out.res.value, m)
       /\ out.res.value = m

\* both forms, on a 4x4 matrix and on a row of four
C20_Witness ==
    /\ out.op \in {"mul", "mul_ref"}
    /\ out.rhs = identity4
    /\ m.cols = 4 /\ m.rows \in {1, 4}
    /\ out.res = Ok(m)
    /\ \E i \in 1..Len(m.data) : m.data[i] \notin {Zero, One}

(***************************************************************************)
(* The transformation pipeline as a state machine: t is the accumulated    *)
(* transformation, built from the matrix base by the fluent calls listed   *)
(* in chain (oldest first).                                                *)
(***************************************************************************)
Triples ==
    { <<Q(10), Q(5), Q(7)>>, <<Q(2), Q(-3), <<1, 2>>>> }

Factors ==
    { <<Q(5), Q(5), Q(5)>> }

Shears ==
    { <<Zero, Q(2), Q(-1), Zero, Zero, Q(3)>> }

Bases ==
    { identity4,
      with_values(4, 4, QS(<<1, 2, 3, 4, 5, 6, 7, 8, 9, 8, 7, 6, 5, 4, 3, 2>>)).value }

InitT ==
    /\ m = new(0, 0)
    /\ out = Start
    /\ sets = 0
    /\ base \in Bases
    /\ t = base
    /\ chain = <<>>
    /\ pt = point(Zero, Zero, Zero)
    /\ vec = vector(Zero, Zero, Zero)
    /\ ops = 0
    /\ ray = Ray_new(point(Zero, Zero, Zero), vector(Zero, Zero, Zero))
    /\ canvas = Canvas_new(0, 0)
    /\ sim = SimStart

\* t = t.<call>(..): the call's outcome res replaces t; a panic ends the
\* program.  Applying t to a point or a vector leaves t and chain as they
\* are, so the chain is continued from the state before the application.
Rebind(res, call) ==
    /\ out.op = "start"
    /\ Len(chain) < MaxChain
    /\ res # Panic
    /\ t' = res.value
    /\ chain' = Append(chain, call)
    /\ out' = Start
    /\ UNCHANGED <<m, sets, base, pt, vec, ops, ray, canvas, sim>>

Translate ==
    \E a \in Triples :
        Rebind(translate(t, a[1], a[2], a[3]), [op |-> "translate", args |-> a])

Scale ==
    \E a \in Factors :
        Rebind(scale(t, a[1], a[2], a[3]), [op |-> "scale", args |-> a])

RotateX ==
    \E r \in Angles :
        Rebind(rotate_x(t, r), [op |-> "rotate_x", args |-> <<r>>])

RotateY ==
    \E r \in {"atan43"} :
        Rebind(rotate_y(t, r), [op |-> "rotate_y", args |-> <<r>>])

RotateZ ==
    \E r \in {"atan43"} :
        Rebind(rotate_z(t, r), [op |-> "rotate_z", args |-> <<r>>])

Shear ==
    \E a \in Shears :
        Rebind(shear(t, a[1], a[2], a[3], a[4], a[5], a[6]), [op |-> "shear", args |-> a])

\* the points the transformations are applied to: the one of
\* test_chained_transformation_calls and one off the axes
ChainPoints ==
    { point(One, Zero, One), point(Q(-3), Q(4), Q(5)) }

\* p.<call>(..) for a call of chain
ApplyCall(call, p) ==
    LET a == call.args
    IN  CASE call.op = "translate" -> Point_translate(p, a[1], a[2], a[3])
          [] call.op = "scale" -> Point_scale(p, a[1], a[2], a[3])
          [] call.op = "rotate_x" -> Point_rotate_x(p, a[1])
          [] call.op = "rotate_y" -> Point_rotate_y(p, a[1])
          [] call.op = "rotate_z" -> Point_rotate_z(p, a[1])
          [] call.op = "shear" -> Point_shear(p, a[1], a[2], a[3], a[4], a[5], a[6])

\* p.<call 1>(..). ... .<call k>(..), the first k calls of chain on the point
RECURSIVE ApplyChain(_, _)
ApplyChain(k, p) ==
    IF k = 0
    THEN Ok(p)
    ELSE LET prev == ApplyChain(k - 1, p)
         IN  IF prev = Panic THEN Panic ELSE ApplyCall(chain[k], prev.value)

\* t * p next to p.<call 1>(..). ... .<call n>(..): the accumulated matrix
\* and the calls of chain one at a time, on the same point; the chain starts
\* from Matrix::identity4()
Apply ==
    /\ out.op = "start"
    /\ base = identity4
    /\ \E p \in ChainPoints :
         out' = [op |-> "apply", p |-> p, res |-> mul_point(t, p),
                 stepwise |-> ApplyChain(Len(chain), p)]
    /\ UNCHANGED <<m, sets, base, t, chain, pt, vec, ops, ray, canvas, sim>>

ChainVectors ==
    { vector(Q(-3), Q(4), Q(5)) }

\* t * v for a chain that starts from Matrix::identity4()
ApplyVector ==
    /\ out.op = "start"
    /\ base = identity4
    /\ \E v \in ChainVectors :
         out' = [op |-> "apply_vector", v |-> v, res |-> mul_vector(t, v)]
    /\ UNCHANGED <<m, sets, base, t, chain, pt, vec, ops, ray, canvas, sim>>

NextT ==
    \/ Translate
    \/ Scale
    \/ RotateX
    \/ RotateY
    \/ RotateZ
    \/ Shear
    \/ Apply
    \/ ApplyVector

SpecT ==
    InitT /\ [][NextT]_vars

\* the mathematical product of a and b (a.cols = b.rows)
MatProduct(a, b) ==
    Matrix(a.rows, b.cols,
           [i \in 1..(a.rows * b.cols) |->
               DotSum(a, b, (i - 1) \div b.cols, (i - 1) % b.cols, 0)])

\* the transformation matrix a fluent call stands for
TransformOf(call) ==
    LET a == call.args
    IN  CASE call.op = "translate" -> translation(a[1], a[2], a[3])
          [] call.op = "scale" -> scaling(a[1], a[2], a[3])
          [] call.op = "rotate_x" -> rotation_x(a[1])
          [] call.op = "rotate_y" -> rotation_y(a[1])
          [] call.op = "rotate_z" -> rotation_z(a[1])
          [] call.op = "shear" -> shearing(a[1], a[2], a[3], a[4], a[5], a[6])

\* base pre-multiplied by the transformations of the first k calls of chain,
\* each on the left of the ones before it
RECURSIVE ChainProduct(_)
ChainProduct(k) ==
    IF k = 0
    THEN base
    ELSE MatProduct(TransformOf(chain[k]), ChainProduct(k - 1))

\* C1: each fluent method pre-multiplies, m.f(a) = F(a) * m, so that a chain
\* of three calls from identity4() is the product third * second * first.
C1_FluentPreMultiplies ==
    /\ t = ChainProduct(Len(chain))
    /\ (Len(chain) = 3 /\ base = identity4)
          => t = MatProduct(MatProduct(TransformOf(chain[3]), TransformOf(chain[2])),
                            TransformOf(chain[1]))

\* identity4().rotate_x(quarter).scale(5, 5, 5).translate(10, 5, 7): the
\* product in the opposite order is another matrix
C1_Witness ==
    /\ base = identity4
    /\ Len(chain) = 3
    /\ chain[1] = [op |-> "rotate_x", args |-> <<"quarter">>]
    /\ chain[2] = [op |-> "scale", args |-> <<Q(5), Q(5), Q(5)>>]
    /\ chain[3] = [op |-> "translate", args |-> <<Q(10), Q(5), Q(7)>>]
    /\ t = with_values(4, 4, QS(<<5, 0, 0, 10, 0, 0, -5, 5, 0, 5, 0, 7, 0, 0, 0, 1>>)).value
    /\ t # MatProduct(MatProduct(TransformOf(chain[1]), TransformOf(chain[2])),
                      TransformOf(chain[3]))


(***************************************************************************)
(* Rays against the unit sphere as a state machine: ray is the ray built   *)
(* by Ray::new, out the last call with its outcome.                        *)
(***************************************************************************)
Half ==
    <<1, 2>>

\* the origins of the tests of spheres.rs (0, y, -5), (0, 0, 0), (0, 0, 5)
\* and their neighbours half a unit off the axis
Origins ==
    { point(x, y, z) : x \in {Zero, Half}, y \in {Zero, One, Q(2)},
                       z \in {Q(-5), Zero, Q(5)} }

\* the direction of the tests, its opposite doubled, two oblique directions
\* and the zero vector
Directions ==
    { vector(Zero, Zero, One), vector(Zero, Zero, Q(-2)), vector(One, Q(2), Q(2)),
      vector(Zero, Q(-3), Q(4)), vector(Zero, Zero, Zero) }

InitR ==
    /\ m = new(0, 0)
    /\ out = Start
    /\ sets = 0
    /\ base = identity4
    /\ t = identity4
    /\ chain = <<>>
    /\ pt = point(Zero, Zero, Zero)
    /\ vec = vector(Zero, Zero, Zero)
    /\ ops = 0
    /\ ray = Ray_new(point(Zero, Zero, Zero), vector(Zero, Zero, Zero))
    /\ canvas = Canvas_new(0, 0)
    /\ sim = SimStart

\* let ray = Ray::new(origin, direction)
RayNew ==
    /\ out.op = "start"
    /\ \E origin \in Origins, direction \in Directions :
         ray' = Ray_new(origin, direction)
    /\ out' = [op |-> "ray_new", res |-> Ok(TRUE)]
    /\ UNCHANGED <<m, sets, base, t, chain, pt, vec, ops, canvas, sim>>

\* Sphere::new().intersect(&ray)
Intersect ==
    /\ out.op = "ray_new"
    /\ out' = [op |-> "intersect", res |-> Ok(intersect(ray))]
    /\ UNCHANGED <<m, sets, base, t, chain, pt, vec, ops, ray, canvas, sim>>

NextR ==
    \/ RayNew
    \/ Intersect

SpecR ==
    InitR /\ [][NextR]_vars

\* the coefficients of the quadratic |origin + t * direction|^2 = 1, from the
\* three space coordinates of the ray
Sum3(f(_)) ==
    RAdd(RAdd(f(1), f(2)), f(3))

QuadA ==
    LET f(i) == RMul(ray.direction[i], ray.direction[i]) IN Sum3(f)

QuadB ==
    LET f(i) == RMul(ray.direction[i], ray.origin[i]) IN RMul(Q(2), Sum3(f))

QuadC ==
    LET f(i) == RMul(ray.origin[i], ray.origin[i]) IN RSub(Sum3(f), One)

Discriminant ==
    RSub(RMul(QuadB, QuadB), RMul(Q(4), RMul(QuadA, QuadC)))

\* a t^2 + b t + c
QuadAt(tv) ==
    RAdd(RAdd(RMul(QuadA, RMul(tv, tv)), RMul(QuadB, tv)), QuadC)

\* the f64 comparison a <= b: false when either side is NaN
FLe(a, b) ==
    IF a = NaN \/ b = NaN THEN FALSE
    ELSE IF a[2] = 0 /\ b[2] = 0 THEN a[1] <= b[1]
    ELSE RLe(a, b)

\* C15: intersect returns an empty sequence exactly when the discriminant
\* b^2 - 4ac is negative; otherwise it returns exactly two intersections whose
\* t values are the two roots (-b - sqrt(disc)) / 2a and (-b + sqrt(disc)) / 2a,
\* whatever their sign; a tangent ray (disc = 0) gives two equal t values.
C15_IntersectRoots ==
    out.op = "intersect"
    => LET xs == out.res.value
           root == Sqrt(Discriminant)
       IN  /\ (xs = <<>>) <=> RLt(Discriminant, Zero)
           /\ ~RLt(Discriminant, Zero)
                => /\ Len(xs) = 2
                   /\ xs[1].object = "Sphere" /\ xs[2].object = "Sphere"
                   /\ xs[1].t = RDiv(RSub(RNeg(QuadB), root), RMul(Q(2), QuadA))
                   /\ xs[2].t = RDiv(RAdd(RNeg(QuadB), root), RMul(Q(2), QuadA))
                   /\ (Discriminant = Zero /\ QuadA # Zero)
                        => (IsNumber(xs[1].t) /\ xs[1].t = xs[2].t)
                   /\ (QuadA # Zero /\ RMul(root, root) = Discriminant)
                        => /\ QuadAt(xs[1].t) = Zero
                           /\ QuadAt(xs[2].t) = Zero

\* the sphere behind the ray: origin (0, 0, 5), direction (0, 0, 1) gives the
\* negative roots -6 and -4
C15_Witness ==
    /\ out.op = "intersect"
    /\ ray = Ray_new(point(Zero, Zero, Q(5)), vector(Zero, Zero, One))
    /\ Len(out.res.value) = 2
    /\ out.res.value[1].t = Q(-6)
    /\ out.res.value[2].t = Q(-4)

Coords ==
    { <<Q(3), Q(2), One>>, <<Q(5), Q(6), Q(7)>>, <<Q(-3), Q(4), Q(5)>> }

Points ==
    { point(c[1], c[2], c[3]) : c \in Coords }

Vectors ==
    { vector(c[1], c[2], c[3]) : c \in Coords }

VectorFactors ==
    { Zero, Half, Q(-2) }

TypedOps ==
    { "point_sub_point", "point_sub_vector", "point_add_vector",
      "vector_add", "vector_sub", "vector_mul" }

InitV ==
    /\ m = new(0, 0)
    /\ out = Start
    /\ sets = 0
    /\ base = identity4
    /\ t = identity4
    /\ chain = <<>>
    /\ pt \in Points
    /\ vec \in Vectors
    /\ ops = 0
    /\ ray = Ray_new(point(Zero, Zero, Zero), vector(Zero, Zero, Zero))
    /\ canvas = Canvas_new(0, 0)
    /\ sim = SimStart

\* a typed operator has been applied: op names it
Applied(op) ==
    /\ ops < MaxOps
    /\ ops' = ops + 1
    /\ out' = [op |-> op, res |-> Ok(TRUE)]
    /\ UNCHANGED <<m, sets, base, t, chain, ray, canvas, sim>>

\* vec = pt - q
PointSubPoint ==
    /\ \E q \in Points : vec' = point_sub_point(pt, q)
    /\ pt' = pt
    /\ Applied("point_sub_point")

\* pt = pt - vec
PointSubVector ==
    /\ pt' = point_sub_vector(pt, vec)
    /\ vec' = vec
    /\ Applied("point_sub_vector")

\* pt = pt + vec
PointAddVector ==
    /\ pt' = point_add_vector(pt, vec)
    /\ vec' = vec
    /\ Applied("point_add_vector")

\* vec = vec + u
VectorAdd ==
    /\ \E u \in Vectors : vec' = vector_add(vec, u)
    /\ pt' = pt
    /\ Applied("vector_add")

\* vec = vec - u
VectorSub ==
    /\ \E u \in Vectors : vec' = vector_sub(vec, u)
    /\ pt' = pt
    /\ Applied("vector_sub")

\* vec = vec * s
VectorMul ==
    /\ \E s \in VectorFactors : vec' = vector_mul(vec, s)
    /\ pt' = pt
    /\ Applied("vector_mul")

\* the products with a translation leave pt and vec as they are and are
\* taken right after the start or a typed operator
FreshV ==
    out.op = "start" \/ out.op \in TypedOps

\* translation(x, y, z) * pt
TranslatePoint ==
    /\ FreshV
    /\ \E a \in Triples :
         out' = [op |-> "translate_point", args |-> a,
                 res |-> mul_point(translation(a[1], a[2], a[3]), pt)]
    /\ UNCHANGED <<m, sets, base, t, chain, pt, vec, ops, ray, canvas, sim>>

\* translation(x, y, z) * vec
TranslateVector ==
    /\ FreshV
    /\ \E a \in Triples :
         out' = [op |-> "translate_vector", args |-> a,
                 res |-> mul_vector(translation(a[1], a[2], a[3]), vec)]
    /\ UNCHANGED <<m, sets, base, t, chain, pt, vec, ops, ray, canvas, sim>>

\* vec.cross(&other)
Cross ==
    /\ FreshV
    /\ \E other \in Vectors :
         out' = [op |-> "cross", other |-> other, res |-> Ok(cross(vec, other))]
    /\ UNCHANGED <<m, sets, base, t, chain, pt, vec, ops, ray, canvas, sim>>

\* the vectors of a round trip: the input vectors and one with a Big component
FarVectors ==
    Vectors \cup { vector(Big(1), Zero, Zero) }

\* (pt + v) - v
RoundTrip ==
    /\ FreshV
    /\ \E v \in FarVectors :
         out' = [op |-> "round_trip", v |-> v,
                 res |-> Ok(point_sub_vector(point_add_vector(pt, v), v))]
    /\ UNCHANGED <<m, sets, base, t, chain, pt, vec, ops, ray, canvas, sim>>

NextV ==
    \/ PointSubPoint
    \/ PointSubVector
    \/ PointAddVector
    \/ VectorAdd
    \/ VectorSub
    \/ VectorMul
    \/ TranslatePoint
    \/ TranslateVector
    \/ Cross
    \/ RoundTrip

SpecV ==
    InitV /\ [][NextV]_vars

\* C17: a translation leaves vectors alone and moves points:
\* translation(x, y, z) * v == v for every Vector v, and
\* translation(x, y, z) * point(px, py, pz) == point(px + x, py + y, pz + z).
C17_TranslationMovesPointsOnly ==
    /\ out.op = "translate_vector"
         => /\ out.res.status = "ok"
            /\ vector_eq(out.res.value, vec)
            /\ out.res.value = vec
    /\ out.op = "translate_point"
         => /\ out.res.status = "ok"
            /\ point_eq(out.res.value,
                        point(RAdd(pt[1], out.args[1]), RAdd(pt[2], out.args[2]),
                              RAdd(pt[3], out.args[3])))
            /\ out.res.value[4] = One

\* translation(2, -3, 1/2) applied to vector(-3, 4, 5), which stays
C17_Witness ==
    /\ out.op = "translate_vector"
    /\ out.args = <<Q(2), Q(-3), Half>>
    /\ vec = vector(Q(-3), Q(4), Q(5))
    /\ out.res = Ok(vector(Q(-3), Q(4), Q(5)))

\* C18: starting from point(x, y, z) and vector(x, y, z), after any sequence
\* of the typed operators (Point - Point, Point - Vector, Point + Vector,
\* Vector + Vector, Vector - Vector, Vector * scalar) the Point has w = 1 and
\* the Vector has w = 0.
C18_TypedOperatorsKeepW ==
    /\ pt[4] = One
    /\ vec[4] = Zero

\* point(3, 2, 1) - point(5, 6, 7) is vector(-2, -4, -6), which added to the
\* point gives point(1, -2, -5)
C18_Witness ==
    /\ ops = 2
    /\ out.op = "point_add_vector"
    /\ vec = Tuple_new(Q(-2), Q(-4), Q(-6), Zero)
    /\ pt = Tuple_new(One, Q(-2), Q(-5), One)


\* C21: the cross product is anticommutative: a.cross(b) is the component-wise
\* negation of b.cross(a), for all Vectors a and b, and is a Vector (w = 0).
C21_CrossAnticommutative ==
    out.op = "cross"
    => /\ out.res.value = tuple_neg(cross(out.other, vec))
       /\ vector_eq(out.res.value, tuple_neg(cross(out.other, vec)))
       /\ out.res.value[4] = Zero

\* vector(3, 2, 1) x vector(5, 6, 7) = vector(8, -16, 8)
C21_Witness ==
    /\ out.op = "cross"
    /\ vec = vector(Q(3), Q(2), One)
    /\ out.other = vector(Q(5), Q(6), Q(7))
    /\ out.res = Ok(vector(Q(8), Q(-16), Q(8)))


\* C22 as stated: for any Point p and Vector v, (p + v) - v == p under the
\* component-wise roughly-equal comparison, and the result is a Point (w = 1).
C22_RoundTripAnyVector ==
    out.op = "round_trip"
    => /\ point_eq(out.res.value, pt)
       /\ out.res.value[4] = One

\* C22 amended: for any Point p and any Vector v whose components are small
\* enough for p + v to be computed without rounding (no component of v is
\* Big), (p + v) - v == p and the result is a Point (w = 1).
C22_RoundTripNearVector ==
    (/\ out.op = "round_trip"
     /\ \A i \in 1..3 : ~IsBig(out.v[i]))
    => /\ point_eq(out.res.value, pt)
       /\ out.res.value[4] = One

\* (point(3, 2, 1) + vector(-3, 4, 5)) - vector(-3, 4, 5)
C22_Witness ==
    /\ out.op = "round_trip"
    /\ pt = point(Q(3), Q(2), One)
    /\ out.v = vector(Q(-3), Q(4), Q(5))
    /\ out.res = Ok(point(Q(3), Q(2), One))


\* C25: applying the transforms one at a time gives the same point as the
\* composed matrix: p.f1(..).f2(..).f3(..) == F3 * (F2 * (F1 * p)) ==
\* (identity4().f1(..).f2(..).f3(..)) * p for every point p, so that the first
\* call (rotate_x in rotate_x, scale, translate) is applied first.
C25_OneAtATimeIsComposed ==
    (out.op = "apply" /\ base = identity4)
    => /\ out.res.status = "ok"
       /\ out.stepwise.status = "ok"
       /\ point_eq(out.stepwise.value, out.res.value)
       /\ Len(chain) = 3
            => LET inner == mul_point(TransformOf(chain[1]), out.p).value
                   middle == mul_point(TransformOf(chain[2]), inner).value
                   outer == mul_point(TransformOf(chain[3]), middle).value
               IN  /\ point_eq(out.stepwise.value, outer)
                   /\ point_eq(outer, out.res.value)

\* point(1, 0, 1).rotate_x(quarter).scale(5, 5, 5).translate(10, 5, 7) is
\* point(15, 0, 7); translating first would give another point
C25_Witness ==
    /\ out.op = "apply"
    /\ base = identity4
    /\ Len(chain) = 3
    /\ chain[1] = [op |-> "rotate_x", args |-> <<"quarter">>]
    /\ chain[2] = [op |-> "scale", args |-> <<Q(5), Q(5), Q(5)>>]
    /\ chain[3] = [op |-> "translate", args |-> <<Q(10), Q(5), Q(7)>>]
    /\ out.p = point(One, Zero, One)
    /\ out.stepwise = Ok(point(Q(15), Zero, Q(7)))
    /\ out.res = Ok(point(Q(15), Zero, Q(7)))


\* C28: every matrix reached from identity4() by the fluent methods
\* (translate, scale, rotate_x, rotate_y, rotate_z, shear) is 4x4 with last
\* row (0, 0, 0, 1); multiplied by a Point it gives a Point with w = 1 and
\* multiplied by a Vector a Vector with w = 0.
C28_FluentKeepsLastRow ==
    base = identity4
    => /\ t.rows = 4 /\ t.cols = 4
       /\ Len(t.data) = 16
       /\ <<t.data[13], t.data[14], t.data[15], t.data[16]>> = <<Zero, Zero, Zero, One>>
       /\ out.op = "apply"
            => (out.res.status = "ok" /\ out.res.value[4] = One)
       /\ out.op = "apply_vector"
            => (out.res.status = "ok" /\ out.res.value[4] = Zero)

\* a chain of three calls with a shear and a rotation, applied to a vector
C28_Witness ==
    /\ base = identity4
    /\ Len(chain) = 3
    /\ \E i \in 1..3 : chain[i].op = "shear"
    /\ \E i \in 1..3 : chain[i].op = "rotate_y"
    /\ out.op = "apply_vector"
    /\ out.res.status = "ok"
    /\ out.res.value[4] = Zero
    /\ out.res.value # out.v

(***************************************************************************)
(* The canvas as a state machine: canvas is the Canvas the program owns,   *)
(* out the last call with its arguments and outcome.                       *)
(***************************************************************************)
\* a width whose black row is longer than a line of the file
WideWidth ==
    12

Widths ==
    0..MaxWidth \cup {WideWidth}

\* the colour of canvas_splits_long_lines (255 204 153) and one with values
\* above 1 and below 0 (255 26 0)
Colors ==
    { Color_new(One, <<4, 5>>, <<3, 5>>), Color_new(<<3, 2>>, <<1, 10>>, <<-1, 2>>) }

InitC ==
    /\ m = new(0, 0)
    /\ out = Start
    /\ sets = 0
    /\ base = identity4
    /\ t = identity4
    /\ chain = <<>>
    /\ pt = point(Zero, Zero, Zero)
    /\ vec = vector(Zero, Zero, Zero)
    /\ ops = 0
    /\ ray = Ray_new(point(Zero, Zero, Zero), vector(Zero, Zero, Zero))
    /\ canvas = Canvas_new(0, 0)
    /\ sim = SimStart

\* let mut c = Canvas::new(width, height)
CanvasNew ==
    /\ out.op = "start"
    /\ \E width \in Widths, height \in 0..MaxHeight :
         /\ canvas' = Canvas_new(width, height)
         /\ out' = [op |-> "new", width |-> width, height |-> height, res |-> Ok(TRUE)]
    /\ UNCHANGED <<m, sets, base, t, chain, pt, vec, ops, ray, sim>>

\* the calls that read the canvas are taken right after its construction or
\* its last write
FreshC ==
    Alive /\ out.op \in {"new", "set_pixel"}

\* c.set_pixel(x, y, value)
SetPixel ==
    /\ FreshC
    /\ ops < MaxWrites
    /\ \E x \in 0..MaxIdx, y \in 0..MaxIdx, value \in Colors :
         LET res == set_pixel(canvas, x, y, value)
         IN  /\ out' = [op |-> "set_pixel", x |-> x, y |-> y, value |-> value,
                        res |-> IF res = Panic THEN Panic ELSE Ok(TRUE)]
             /\ canvas' = IF res = Panic THEN canvas ELSE res.value
    /\ ops' = ops + 1
    /\ UNCHANGED <<m, sets, base, t, chain, pt, vec, ray, sim>>

\* c.pixel_at(x, y)
PixelAt ==
    /\ FreshC
    /\ \E x \in 0..MaxIdx, y \in 0..MaxIdx :
         out' = [op |-> "pixel_at", x |-> x, y |-> y, res |-> Ok(pixel_at(canvas, x, y))]
    /\ UNCHANGED <<m, sets, base, t, chain, pt, vec, ops, ray, canvas, sim>>

\* c.to_ppm()
ToPpm ==
    /\ FreshC
    /\ out' = [op |-> "to_ppm", res |-> Ok(to_ppm(canvas))]
    /\ UNCHANGED <<m, sets, base, t, chain, pt, vec, ops, ray, canvas, sim>>

NextC ==
    \/ CanvasNew
    \/ SetPixel
    \/ PixelAt
    \/ ToPpm

SpecC ==
    InitC /\ [][NextC]_vars

\* the pixel at column x of row y
Pixel(c, x, y) ==
    c.data[y * c.width + x + 1]

OnCanvas(c, x, y) ==
    x < c.width /\ y < c.height

SplitOn(text, sep) ==
    LET ends == {i \in 1..Len(text) : text[i] = sep} \cup {Len(text) + 1}
        n == Cardinality(ends)
        nth(k) == CHOOSE e \in ends : Cardinality({i \in ends : i < e}) = k - 1
        first(k) == IF k = 1 THEN 1 ELSE nth(k - 1) + 1
        pieces == [k \in 1..n |-> SubSeq(text, first(k), nth(k) - 1)]
    IN  IF pieces[n] = <<>> THEN SubSeq(pieces, 1, n - 1) ELSE pieces

LinesOf(text) ==
    SplitOn(text, "\n")

\* C24: every line of the text of to_ppm is at most 70 characters long, for
\* every canvas size and pixel content, and the text ends with a newline.
C24_PpmLinesFit ==
    out.op = "to_ppm"
    => LET text == out.res.value
           lines == LinesOf(text)
       IN  /\ Len(text) > 0
           /\ text[Len(text)] = "\n"
           /\ \A i \in 1..Len(lines) : Len(lines[i]) <= 70

\* a row of the wide canvas split after a line of exactly 70 characters
C24_Witness ==
    /\ out.op = "to_ppm"
    /\ canvas.width = WideWidth
    /\ LET lines == LinesOf(out.res.value)
       IN  \E i \in 1..(Len(lines) - 1) : Len(lines[i]) = 70

\* the number written in decimal digits
DigitValue(ch) ==
    CHOOSE d \in 0..9 : Digits[d + 1] = ch

RECURSIVE ToNat(_, _)
ToNat(digits, k) ==
    IF k = 0 THEN 0 ELSE 10 * ToNat(digits, k - 1) + DigitValue(digits[k])

IsNumeral(tok) ==
    /\ Len(tok) > 0
    /\ \A i \in 1..Len(tok) : \E d \in 1..10 : Digits[d] = tok[i]

\* the numerals of a line, separated by single spaces
TokensOf(line) ==
    SplitOn(line, " ")

\* the numbers of the lines from line k on, in the order of the text
RECURSIVE NumbersFrom(_, _)
NumbersFrom(lines, k) ==
    IF k > Len(lines)
    THEN <<>>
    ELSE LET toks == TokensOf(lines[k])
         IN  [i \in 1..Len(toks) |-> ToNat(toks[i], Len(toks[i]))] \o NumbersFrom(lines, k + 1)

\* how many numbers the lines 4..k hold
RECURSIVE CountUpTo(_, _)
CountUpTo(lines, k) ==
    IF k <= 3 THEN 0 ELSE CountUpTo(lines, k - 1) + Len(TokensOf(lines[k]))

\* the colour values of the canvas in row-major pixel order, red, green, blue
ExpectedValues ==
    [k \in 1..(3 * canvas.width * canvas.height) |->
        clamp_byte(canvas.data[((k - 1) \div 3) + 1][((k - 1) % 3) + 1])]

\* C26: after the header lines P3, "width height" and 255, to_ppm writes
\* exactly the 3 * width * height colour values in row-major pixel order, red,
\* green, blue within a pixel; splitting a line drops, repeats or reorders no
\* value, and the values of each canvas row begin on a new line.
C26_PpmValuesInOrder ==
    out.op = "to_ppm"
    => LET lines == LinesOf(out.res.value)
       IN  /\ Len(lines) >= 3
           /\ lines[1] = <<"P", "3">>
           /\ lines[2] = to_string(canvas.width) \o <<" ">> \o to_string(canvas.height)
           /\ lines[3] = <<"2", "5", "5">>
           /\ \A i \in 4..Len(lines) :
                /\ Len(TokensOf(lines[i])) > 0
                /\ \A j \in 1..Len(TokensOf(lines[i])) : IsNumeral(TokensOf(lines[i])[j])
           /\ NumbersFrom(lines, 4) = ExpectedValues
           /\ \A r \in 0..canvas.height :
                \E k \in 3..Len(lines) : CountUpTo(lines, k) = 3 * canvas.width * r

\* the wide canvas with a written pixel in its second row: each row takes
\* two lines and the second row starts with the written colour
C26_Witness ==
    /\ out.op = "to_ppm"
    /\ canvas.width = WideWidth /\ canvas.height = 2
    /\ Pixel(canvas, 0, 1) = Color_new(One, <<4, 5>>, <<3, 5>>)
    /\ LET lines == LinesOf(out.res.value)
       IN  /\ Len(lines) = 7
           /\ SubSeq(lines[6], 1, 11) = <<"2", "5", "5", " ", "2", "0", "4", " ", "1", "5", "3">>

\* C27: coordinates outside the canvas never touch a pixel inside it:
\* whenever x >= width or y >= height, pixel_at(x, y) returns None and
\* set_pixel(x, y, c) changes no pixel of the canvas.
C27_OutsideTouchesNothing ==
    [][/\ (out'.op = "pixel_at" /\ ~OnCanvas(canvas, out'.x, out'.y))
          => out'.res = Ok(None)
       /\ (out'.op = "set_pixel" /\ ~OnCanvas(canvas, out'.x, out'.y))
          => canvas' = canvas
      ]_vars

(***************************************************************************)
(* The projectile program as a state machine: sim holds the position of    *)
(* main (pc), the build, the environment, the projectile, the set_pixel    *)
(* calls of the last iteration and the flat indices of the pixels written  *)
(* so far (every write stores the same colour, so these are the canvas);   *)
(* ops counts the ticks taken.                                             *)
(***************************************************************************)
Builds ==
    {"debug", "release"}

\* vector(0., -0.1, 0.) and a gravity twice as strong
Gravities ==
    { vector(Zero, <<-1, 10>>, Zero), vector(Zero, <<-1, 5>>, Zero) }

\* vector(-0.01, 0., 0.), an updraught half as strong as the gravity of main
\* and one that cancels it
Winds ==
    { vector(<<-1, 100>>, Zero, Zero), vector(Zero, <<1, 20>>, Zero),
      vector(Zero, <<1, 10>>, Zero) }

InitP ==
    /\ m = new(0, 0)
    /\ out = Start
    /\ sets = 0
    /\ base = identity4
    /\ t = identity4
    /\ chain = <<>>
    /\ pt = point(Zero, Zero, Zero)
    /\ vec = vector(Zero, Zero, Zero)
    /\ ops = 0
    /\ ray = Ray_new(point(Zero, Zero, Zero), vector(Zero, Zero, Zero))
    /\ canvas = Canvas_new(0, 0)
    /\ sim = SimStart

\* main up to the loop
Launch ==
    /\ sim.pc = "start"
    /\ \E build \in Builds, gravity \in Gravities, wind \in Winds :
         sim' = [pc |-> "loop",
                 build |-> build,
                 env |-> Env_new(gravity, wind),
                 proj |-> Projectile_new(point(Zero, One, Zero),
                                         vector_mul(normalize(vector(One, <<9, 5>>, Zero)),
                                                    <<45, 4>>)),
                 calls |-> {},
                 painted |-> {}]
    /\ UNCHANGED <<m, out, sets, base, t, chain, pt, vec, ops, ray, canvas>>

\* while p.position.y() > 0.0, with the cap of the model on the ticks
InLoop ==
    /\ sim.pc = "loop"
    /\ RLt(Zero, sim.proj.position[2])
    /\ ops < MaxTicks

\* one iteration of the loop
Iterate ==
    /\ InLoop
    /\ LET res == plot(sim.build, sim.proj.position)
       IN  IF res = Panic
           THEN /\ sim' = [sim EXCEPT !.pc = "panic", !.calls = {}]
                /\ ops' = ops
           ELSE /\ sim' = [sim EXCEPT
                             !.calls = res.value,
                             !.painted = @ \cup { coords_to_index([width |-> CanvasWidth], c[1], c[2]) :
                                                  c \in res.value },
                             !.proj = tick(sim.env, sim.proj)]
                /\ ops' = ops + 1
    /\ UNCHANGED <<m, out, sets, base, t, chain, pt, vec, ray, canvas>>

\* the loop condition fails
Exit ==
    /\ sim.pc = "loop"
    /\ ~RLt(Zero, sim.proj.position[2])
    /\ sim' = [sim EXCEPT !.pc = "done", !.calls = {}]
    /\ UNCHANGED <<m, out, sets, base, t, chain, pt, vec, ops, ray, canvas>>

NextP ==
    Launch \/ Iterate \/ Exit

\* the next tick of a loop whose condition holds
Ticking ==
    InLoop /\ ops' = ops + 1

\* main is sequential code: inside the loop the next iteration is taken (or
\* the program panics), and a loop whose condition fails is left
SpecP ==
    InitP /\ [][NextP]_vars /\ WF_ops(Ticking) /\ WF_vars(Exit)

\* the environments whose gravity plus wind has a negative y component
FallingEnvs ==
    { e \in { Env_new(gravity, wind) : gravity \in Gravities, wind \in Winds } :
        RLt(RAdd(e.gravity[2], e.wind[2]), Zero) }

\* C30: the loop of the projectile simulation terminates whenever gravity
\* plus wind has a negative y component, and every set_pixel call made inside
\* the loop has 0 <= px < canvas width and 0 <= py < canvas height.
C30_LoopEndsInsideCanvas ==
    /\ [](sim.pc = "loop"
          => \A c \in sim.calls :
               /\ 0 <= c[1] /\ c[1] < CanvasWidth
               /\ 0 <= c[2] /\ c[2] < CanvasHeight)
    /\ (sim.pc = "loop" /\ sim.env \in FallingEnvs) ~> (sim.pc \in {"done", "panic"})

\* the run of main: gravity -0.1, wind -0.01, ended by the loop condition
\* after more than a hundred ticks that wrote pixels
C30_Witness ==
    /\ sim.pc = "done"
    /\ sim.env = Env_new(vector(Zero, <<-1, 10>>, Zero), vector(<<-1, 100>>, Zero, Zero))
    /\ ops > 100
    /\ Cardinality(sim.painted) > 100

====
